---- MODULE Spec2Model ----
(***************************************************************************)
(* A model of two pieces of rust-hyperscan:                                *)
(*   - CPtr<T> (src/src/cptr.rs): an owning wrapper around one block of    *)
(*     libc-allocated memory holding one value;                            *)
(*   - the three scan dispatchers (src/hyperscan/src/runtime/scan.rs):     *)
(*     DatabaseRef<Block>::scan, DatabaseRef<Vectored>::scan and           *)
(*     Stream::scan, together with the engine entry points they call.      *)
(***************************************************************************)
EXTENDS Integers, Sequences, FiniteSets, TLC

(***************************************************************************)
(* Bounds of the model.                                                    *)
(***************************************************************************)
\* number of CPtr values the program constructs
MaxCPtrs == 2
\* number of blocks libc::malloc hands out
MaxBlocks == 2
\* values of T are 1..MaxVal
MaxVal == 2
\* bytes of data one behaviour scans (one call's buffers, or a stream's chunks)
MaxBytes == 4
\* buffers of a vectored call, chunks of a stream
MaxBufs == 3
\* the callback returns a value in 0..MaxRet
MaxRet == 1

VARIABLES
    heap,       \* the libc heap: block -> state, contents and event counters
    nextB,      \* the next block malloc hands out
    raw,        \* the raw pointers the calling code holds
    cptrs,      \* the CPtr values: handle -> record
    nextH,      \* the next CPtr handle to be constructed
    dropping,   \* the handle whose drop() is running, 0 when none
    lastRead,   \* what the last borrow() returned
    ub,         \* an access with undefined behaviour has been executed
    crashed,    \* the process has been aborted (assert!, or a fault)
    input,      \* the database's mode and the data the caller will scan
    next,       \* how many scan calls the caller has made
    call,       \* the scan call in progress, or the last one that returned
    stream,     \* the engine's state of the open stream handle
    fed         \* the bytes of the chunks handed to Stream::scan so far

svars == <<input, next, call, stream, fed>>

vars == <<heap, nextB, raw, cptrs, nextH, dropping, lastRead, ub, crashed,
          input, next, call, stream, fed>>

cvars == <<heap, nextB, raw, cptrs, nextH, dropping, lastRead, ub, crashed>>

Null == 0
NoVal == 0
Blocks == 1..MaxBlocks
Handles == 1..MaxCPtrs
Values == 1..MaxVal

\* no borrow() has just returned
NoRead == [h |-> 0, val |-> NoVal, expect |-> NoVal]

\* a block nobody allocated yet
FreshBlock ==
    [st |-> "unalloc", data |-> NoVal, drops |-> 0, gdrops |-> 0, frees |-> 0,
     by |-> "none", rel |-> "none"]

\* a handle not constructed yet
NoCPtr ==
    [st |-> "none", ptr |-> Null, ctor |-> "none", blk |-> Null, v0 |-> NoVal,
     touched |-> FALSE, mallocs |-> 0, log |-> <<>>]

\* the pointer designates an allocated block
Allocated(hp, p) == p # Null /\ hp[p].st \in {"uninit", "init"}

\* the pointer designates an allocated block that holds an initialized value
Valid(hp, p) == p # Null /\ hp[p].st = "init"

\* libc::malloc(size_of::<T>()): a fresh block, or null
MallocResults == {nextB, Null}

\* the heap once malloc returned b
AfterMalloc(hp, b) ==
    IF b = Null THEN hp ELSE [hp EXCEPT ![b].st = "uninit", ![b].by = "libc::malloc"]

\* `*ptr = value`: the assignment first tears down what the block held
AssignWrite(blk, v) ==
    [blk EXCEPT !.st = "init", !.data = v, !.gdrops = @ + 1]

\* the block is left as malloc returned it: the value is never moved in
NoWrite(blk, v) ==
    blk

\* ptr::write(&mut *ptr, value): moves the value in, nothing is torn down
PtrWrite(blk, v) ==
    [blk EXCEPT !.st = "init", !.data = v]

\* block b is written or released: no handle that points at it still expects
\* to read the value it was constructed over (v0)
Dirty(cs, b) ==
    [h \in Handles |->
        IF cs[h].ptr = b /\ b # Null THEN [cs[h] EXCEPT !.v0 = NoVal] ELSE cs[h]]

\* handle h has been borrowed or dereferenced (recorded for the CPtrs that
\* CPtr::new built: nobody else holds their pointer until then)
Touched(cs, h) ==
    IF cs[h].ctor = "new" THEN [cs EXCEPT ![h].touched = TRUE] ELSE cs

\* the scan variables when nothing is scanned
NoInput == [mode |-> "none", bufs |-> <<>>, owned |-> FALSE]
NoCall ==
    [pc |-> "idle", chunk |-> <<>>, cb |-> [tag |-> "None"], ctx |-> [tag |-> "None"],
     args |-> <<>>, hist |-> <<>>, base |-> 0, view |-> <<>>, pos |-> 0,
     events |-> <<>>, status |-> 0, result |-> "none"]
OpenStream == [offset |-> 0, tail |-> <<>>, broken |-> FALSE]

\* no CPtr has been constructed and nothing is allocated; nothing is scanned
CInit ==
    /\ heap = [b \in Blocks |-> FreshBlock]
    /\ nextB = 1
    /\ raw = {}
    /\ cptrs = [h \in Handles |-> NoCPtr]
    /\ nextH = 1
    /\ dropping = 0
    /\ lastRead = NoRead
    /\ ub = FALSE
    /\ crashed = FALSE
    /\ input = NoInput
    /\ next = 0
    /\ call = NoCall
    /\ stream = OpenStream
    /\ fed = <<>>

\* the program is between two CPtr operations. Once an operation has had
\* undefined behaviour the state of the process means nothing any more: the
\* model follows a run to the end of that operation and no further.
Idle == ~crashed /\ ~ub /\ dropping = 0

\* CPtr::new(value)
New(v) ==
    /\ Idle
    /\ UNCHANGED svars
    /\ nextH <= MaxCPtrs
    /\ nextB <= MaxBlocks
    /\ \E b \in MallocResults :
          IF b = Null
          THEN \* assert!(!ptr.is_null()) fails: no CPtr is returned
               /\ crashed' = TRUE
               /\ lastRead' = NoRead
               /\ UNCHANGED <<heap, nextB, raw, cptrs, nextH, dropping, ub>>
          ELSE /\ heap' = [AfterMalloc(heap, b) EXCEPT ![b] = PtrWrite(@, v)]
               /\ nextB' = nextB + 1
               /\ cptrs' = [cptrs EXCEPT ![nextH] =
                      [st |-> "live", ptr |-> b, ctor |-> "new", blk |-> b, v0 |-> v,
                       touched |-> FALSE,
                       mallocs |-> nextB' - nextB, log |-> <<>>]]
               /\ nextH' = nextH + 1
               /\ lastRead' = NoRead
               /\ UNCHANGED <<raw, dropping, ub, crashed>>

\* the pointer a CPtr built by from_ptr(p) holds
AdoptedPtr(p) == p

\* CPtr::from_ptr(p): p is any raw pointer the caller holds, or null
FromPtr(p) ==
    /\ Idle
    /\ UNCHANGED svars
    /\ nextH <= MaxCPtrs
    /\ p \in raw \cup {Null}
    /\ lastRead' = NoRead
    /\ UNCHANGED <<heap, nextB, raw, dropping, ub, crashed>>
    /\ cptrs' = [cptrs EXCEPT ![nextH] =
           [st |-> "live", ptr |-> AdoptedPtr(p), ctor |-> "from_ptr", blk |-> p,
            v0 |-> IF Valid(heap, p) THEN heap[p].data ELSE NoVal,
            touched |-> FALSE,
            mallocs |-> nextB' - nextB, log |-> <<>>]]
    /\ nextH' = nextH + 1

\* the caller's own libc::malloc, as in tests::test_from_ptr
CallerMalloc ==
    /\ Idle
    /\ UNCHANGED svars
    /\ nextB <= MaxBlocks
    /\ \E b \in MallocResults :
          /\ heap' = AfterMalloc(heap, b)
          /\ nextB' = IF b = Null THEN nextB ELSE nextB + 1
          /\ raw' = raw \cup ({b} \ {Null})
    /\ lastRead' = NoRead
    /\ UNCHANGED <<cptrs, nextH, dropping, ub, crashed>>

\* the caller's write through its raw pointer: (*foo).bar = v
CallerInit(b, v) ==
    /\ Idle
    /\ UNCHANGED svars
    /\ b \in raw
    /\ Allocated(heap, b)
    /\ heap' = [heap EXCEPT ![b] = PtrWrite(@, v)]
    /\ cptrs' = Dirty(cptrs, b)
    /\ lastRead' = NoRead
    /\ UNCHANGED <<nextB, raw, nextH, dropping, ub, crashed>>

\* Deref::deref: `*p` is the raw pointer
Deref(h) ==
    /\ Idle
    /\ UNCHANGED svars
    /\ cptrs[h].st = "live"
    /\ raw' = raw \cup ({cptrs[h].ptr} \ {Null})
    /\ cptrs' = Touched(cptrs, h)
    /\ lastRead' = NoRead
    /\ UNCHANGED <<heap, nextB, nextH, dropping, ub, crashed>>

\* what `&*self.0` reads when self.0 is valid
BorrowedValue(hp, p) == hp[p].data

\* Borrow::borrow
Borrow(h) ==
    /\ Idle
    /\ UNCHANGED svars
    /\ cptrs[h].st = "live"
    /\ cptrs' = Touched(cptrs, h)
    /\ IF Valid(heap, cptrs[h].ptr)
       THEN /\ lastRead' = [h |-> h, val |-> BorrowedValue(heap, cptrs[h].ptr),
                            expect |-> cptrs[h].v0]
            /\ UNCHANGED <<ub, crashed>>
       ELSE \* null, freed or uninitialized memory is read
            /\ \E g \in Values : lastRead' = [h |-> h, val |-> g, expect |-> cptrs[h].v0]
            /\ ub' = TRUE
            /\ crashed' \in BOOLEAN
    /\ UNCHANGED <<heap, nextB, raw, nextH, dropping>>

\* BorrowMut::borrow_mut, and a write of v through the reference
BorrowMut(h, v) ==
    /\ Idle
    /\ UNCHANGED svars
    /\ cptrs[h].st = "live"
    /\ IF Valid(heap, cptrs[h].ptr)
       THEN /\ heap' = [heap EXCEPT ![cptrs[h].ptr].data = v]
            /\ cptrs' = Touched(Dirty(cptrs, cptrs[h].ptr), h)
            /\ UNCHANGED <<ub, crashed>>
       ELSE /\ cptrs' = Touched(cptrs, h)
            /\ ub' = TRUE
            /\ crashed' \in BOOLEAN
            /\ UNCHANGED heap
    /\ lastRead' = NoRead
    /\ UNCHANGED <<nextB, raw, nextH, dropping>>

\* the order of the statements of drop() with the first two swapped
DropOrderFreeFirst == <<"free", "read", "null">>

\* the statements of Drop::drop, in program order
DropOrder == <<"read", "free", "null">>

\* the CPtr whose drop() runs statement k next: h itself when drop() starts
\* (the CPtr goes out of scope), the handle already in drop() afterwards
DropStep(h) ==
    /\ ~crashed
    /\ UNCHANGED svars
    /\ \/ Idle /\ cptrs[h].st = "live"
       \/ dropping = h
    /\ LET p == cptrs[h].ptr
           k == Len(cptrs[h].log) + 1
           s == DropOrder[k]
           last == k = Len(DropOrder)
           logged == [cptrs EXCEPT ![h].log = Append(@, s),
                                   ![h].st = IF last THEN "dropped" ELSE "dropping"]
       IN /\ dropping' = IF last THEN 0 ELSE h
          /\ CASE s = "read" ->
                    \* ptr::read(self.0): the copy is torn down at once
                    /\ cptrs' = logged
                    /\ IF Valid(heap, p)
                       THEN /\ heap' = [heap EXCEPT ![p].drops = @ + 1]
                            /\ UNCHANGED <<ub, crashed>>
                       ELSE /\ heap' = IF p = Null THEN heap
                                       ELSE IF heap[p].st = "freed"
                                            THEN [heap EXCEPT ![p].drops = @ + 1]
                                            ELSE [heap EXCEPT ![p].gdrops = @ + 1]
                            /\ ub' = TRUE
                            /\ crashed' \in BOOLEAN
               [] s = "free" ->
                    \* libc::free(self.0): free(NULL) does nothing
                    /\ cptrs' = Dirty(logged, p)
                    /\ IF p = Null
                       THEN UNCHANGED <<heap, ub, crashed>>
                       ELSE IF Allocated(heap, p)
                            THEN /\ heap' = [heap EXCEPT ![p].st = "freed", ![p].data = NoVal,
                                                     ![p].frees = @ + 1,
                                                     ![p].rel = "libc::free"]
                                 /\ UNCHANGED <<ub, crashed>>
                            ELSE /\ heap' = [heap EXCEPT ![p].frees = @ + 1]
                                 /\ ub' = TRUE
                                 /\ crashed' \in BOOLEAN
               [] s = "null" ->
                    \* self.0 = ptr::null_mut()
                    /\ cptrs' = [logged EXCEPT ![h].ptr = Null]
                    /\ UNCHANGED <<heap, ub, crashed>>
    /\ lastRead' = NoRead
    /\ UNCHANGED <<nextB, raw, nextH>>

NextCPtr ==
    \/ \E v \in Values : New(v)
    \/ \E p \in Blocks \cup {Null} : FromPtr(p)
    \/ CallerMalloc
    \/ \E b \in Blocks, v \in Values : CallerInit(b, v)
    \/ \E h \in Handles : Deref(h)
    \/ \E h \in Handles : Borrow(h)
    \/ \E h \in Handles, v \in Values : BorrowMut(h, v)
    \/ \E h \in Handles : DropStep(h)

(***************************************************************************)
(* The scan dispatchers and the engine they call.                          *)
(***************************************************************************)
Bytes == {1, 2}

\* the compiled database: one literal pattern, with identifier 0
Pattern == <<1, 2>>
PatLen == Len(Pattern)

Modes == {"block", "vectored", "stream"}

\* byte strings of at most n bytes
ByteSeqs(n) == UNION {[1..k -> Bytes] : k \in 0..n}

RECURSIVE Concat(_)
\* the buffers laid end to end
Concat(bs) == IF bs = <<>> THEN <<>> ELSE Head(bs) \o Concat(Tail(bs))

\* d cut into k buffers that end at c[1] <= ... <= c[k] = Len(d)
Cut(d, k, c) ==
    [i \in 1..k |-> SubSeq(d, (IF i = 1 THEN 0 ELSE c[i - 1]) + 1, c[i])]

\* the ways to cut Len(d) bytes into k buffers: where each buffer ends
Cuts(d, k) ==
    {c \in [1..k -> 0..Len(d)] :
        c[k] = Len(d) /\ \A i \in 1..(k - 1) : c[i] <= c[i + 1]}

\* every way to hand at most MaxBytes bytes over in at most MaxBufs buffers
BufSeqs ==
    {<<>>} \cup
    UNION { UNION { {Cut(d, k, c) : c \in Cuts(d, k)} : d \in ByteSeqs(MaxBytes) } :
            k \in 1..MaxBufs }

\* Option<T>
None == [tag |-> "None"]
Some(x) == [tag |-> "Some", val |-> x]

\* the null function pointer and the null context pointer
NullPtr == "null"

\* the address of the caller's callback function, and of its context value
CallbackFn == "callback"
ContextRef == "context"

\* engine status codes
HS_SUCCESS == 0
HS_INVALID == -1
HS_NOMEM == -2
HS_SCAN_TERMINATED == -3

\* errors::AsResult::ok: the engine's status as a Result
AsResultOk(status) ==
    CASE status = HS_SUCCESS -> "Ok"
      [] status = HS_SCAN_TERMINATED -> "ScanTerminated"
      [] status = HS_INVALID -> "Invalid"
      [] status = HS_NOMEM -> "NoMem"
      [] OTHER -> "UnknownError"

\* mem::transmute of an Option of a function pointer or of a reference: None
\* is the null pointer, Some(x) is x's address
Transmute(o) == IF o.tag = "None" THEN NullPtr ELSE o.val

\* a trampoline is always handed to the engine, whatever the caller gave
TrampolinePtr(cb) == CallbackFn

\* the callback argument of the entry points: mem::transmute(callback)
CallbackPtr(cb) == Transmute(cb)

\* the context argument of the entry points: mem::transmute(context)
ContextPtr(ctx) == Transmute(ctx)

\* a pointer to the bytes of the i-th buffer of the call; live tells whether
\* the buffer still exists when the engine reads through the pointer
BufPtr(i, live) == [buf |-> i, live |-> live]

\* DatabaseRef<Block>::scan: data.as_ptr(), data.len() as u32. `data` lives
\* to the end of the call. (The lengths of the model are far below 2^32,
\* where `as u32` and `as c_uint` keep the length as it is.)
BlockArgs(bufs, cb, ctx) ==
    [ptrs |-> <<BufPtr(1, TRUE)>>, lens |-> <<Len(bufs[1])>>, count |-> 1,
     cb |-> CallbackPtr(cb), ctx |-> ContextPtr(ctx)]

\* DatabaseRef<Vectored>::scan: the closure given to map() takes each buffer
\* by value and returns its pointer and length; a buffer that owns its bytes
\* is dropped, and its bytes released, when the closure returns.
VectoredArgs(bufs, owned, cb, ctx) ==
    LET ptrs == [i \in 1..Len(bufs) |-> BufPtr(i, ~owned)]
        lens == [i \in 1..Len(bufs) |-> Len(bufs[i])]
    IN [ptrs |-> ptrs, lens |-> lens, count |-> Len(ptrs),
        cb |-> CallbackPtr(cb), ctx |-> ContextPtr(ctx)]

\* the chunk is handed over without its last byte
StreamArgsShort(bufs, cb, ctx) ==
    [ptrs |-> <<BufPtr(1, TRUE)>>,
     lens |-> <<IF Len(bufs[1]) = 0 THEN 0 ELSE Len(bufs[1]) - 1>>, count |-> 1,
     cb |-> CallbackPtr(cb), ctx |-> ContextPtr(ctx)]

\* Stream::scan: data.as_ptr(), data.len() as u32
StreamArgs(bufs, cb, ctx) ==
    [ptrs |-> <<BufPtr(1, TRUE)>>, lens |-> <<Len(bufs[1])>>, count |-> 1,
     cb |-> CallbackPtr(cb), ctx |-> ContextPtr(ctx)]

\* the status is dropped and the call reports success
ResultSwallowed(status) == "Ok"

\* every failure is reported as the same kind
ResultCollapsed(status) == IF status = HS_SUCCESS THEN "Ok" ELSE "Invalid"

\* what the three dispatchers return: the entry point's status, `.ok()`
ScanResult(status) == AsResultOk(status)

\* the arguments the dispatcher of the mode hands to its entry point
DispatchArgs(mode, bufs, owned, cb, ctx) ==
    CASE mode = "block" -> BlockArgs(bufs, cb, ctx)
      [] mode = "vectored" -> VectoredArgs(bufs, owned, cb, ctx)
      [] mode = "stream" -> StreamArgs(bufs, cb, ctx)

\* what the engine reads through the i-th pointer: the buffer's bytes, or,
\* when the buffer has been released and its memory reused, other bytes
EngineRead(args, bufs, i, junk, fill) ==
    IF args.ptrs[i].live \/ i \notin junk
    THEN SubSeq(bufs[args.ptrs[i].buf], 1, args.lens[i])
    ELSE [k \in 1..args.lens[i] |-> fill]

\* the logical data of the call: what is read through the pointers, in order
EngineView(args, bufs, junk, fill) ==
    Concat([i \in 1..args.count |-> EngineRead(args, bufs, i, junk, fill)])

\* the offsets at which an occurrence of the pattern ends in d
MatchEnds(d) == {e \in PatLen..Len(d) : SubSeq(d, e - PatLen + 1, e) = Pattern}

\* the last k bytes of d (all of d when it is shorter)
LastBytes(d, k) == IF Len(d) <= k THEN d ELSE SubSeq(d, Len(d) - k + 1, Len(d))

\* the databases of the tests: block and vectored report the start of match
\* (SOM_LEFTMOST), streaming does not and reports 0
StartOfMatch(mode, to) == IF mode = "stream" THEN 0 ELSE to - PatLen

\* the database is compiled for one mode, a stream is open and nothing has
\* been scanned; the caller holds the data it is going to scan. No CPtr
\* exists.
SInit ==
    /\ input \in [mode : Modes, bufs : BufSeqs, owned : BOOLEAN]
    /\ input.mode = "block" => Len(input.bufs) = 1
    /\ input.mode # "vectored" => ~input.owned
    /\ next = 0
    /\ call = NoCall
    /\ stream = OpenStream
    /\ fed = <<>>
    /\ heap = [b \in Blocks |-> FreshBlock]
    /\ nextB = 1
    /\ raw = {}
    /\ cptrs = [h \in Handles |-> NoCPtr]
    /\ nextH = 1
    /\ dropping = 0
    /\ lastRead = NoRead
    /\ ub = FALSE
    /\ crashed = FALSE

\* the buffers of the caller's next call: all of them for a vectored scan,
\* the next chunk for a stream
NextChunk ==
    IF input.mode = "stream" THEN <<input.bufs[next + 1]>> ELSE input.bufs

\* the engine returns `status`, and the dispatcher returns to the caller
Returned(c, status) ==
    [c EXCEPT !.pc = "idle", !.status = status, !.result = ScanResult(status)]

\* the stream handle after the engine has gone through the call's data
StreamAfter(c, status) ==
    IF input.mode # "stream" THEN stream
    ELSE [offset |-> stream.offset + Len(c.view),
          tail |-> LastBytes(c.hist \o c.view, PatLen - 1),
          broken |-> status = HS_SCAN_TERMINATED]

\* the buffers of the call that no longer exist when the engine reads them
Released(args) == {i \in 1..args.count : ~args.ptrs[i].live}

\* a dispatcher is called: it derives the pointers and lengths, and calls the
\* entry point of its mode, which checks its arguments and the stream
ScanBegin(cb, ctx, fault) ==
    /\ call.pc = "idle"
    /\ UNCHANGED cvars
    /\ next < (IF input.mode = "stream" THEN Len(input.bufs) ELSE 1)
    /\ next' = next + 1
    /\ LET chunk == NextChunk
           args == DispatchArgs(input.mode, chunk, input.owned, cb, ctx)
           c == [pc |-> "engine", chunk |-> chunk, cb |-> cb, ctx |-> ctx,
                 args |-> args,
                 hist |-> IF input.mode = "stream" THEN stream.tail ELSE <<>>,
                 base |-> IF input.mode = "stream" THEN stream.offset ELSE 0,
                 view |-> <<>>, pos |-> 0, events |-> <<>>, status |-> HS_SUCCESS,
                 result |-> "pending"]
       IN IF fault # HS_SUCCESS
          THEN \* the entry point rejects the call before it scans
               /\ call' = Returned(c, fault)
               /\ UNCHANGED <<stream, fed>>
          ELSE IF input.mode = "stream" /\ stream.broken
          THEN \* a stream halted by its callback scans no more
               /\ call' = Returned(c, HS_SCAN_TERMINATED)
               /\ UNCHANGED <<stream, fed>>
          ELSE \* the engine reads the data through the pointers it was given
               /\ \E junk \in SUBSET Released(args) :
                  \E fill \in IF junk = {} THEN {1} ELSE Bytes :
                     call' = [c EXCEPT !.view = EngineView(args, chunk, junk, fill)]
               /\ fed' = IF input.mode = "stream" THEN fed \o Concat(chunk) ELSE fed
               /\ UNCHANGED stream
    /\ UNCHANGED input

\* the engine goes on through the data: to the next match, for which it
\* invokes the callback (which returns ret), or to the end
EngineStep(ret) ==
    /\ call.pc = "engine"
    /\ UNCHANGED cvars
    /\ LET h == Len(call.hist)
           ends == {e \in MatchEnds(call.hist \o call.view) : e > h /\ e - h > call.pos}
       IN IF call.args.cb = NullPtr \/ ends = {}
          THEN \* match production is suppressed, or nothing is left to report
               /\ ret = 0
               /\ call' = Returned([call EXCEPT !.pos = Len(call.view)], HS_SUCCESS)
               /\ stream' = StreamAfter(call, HS_SUCCESS)
          ELSE LET e == CHOOSE x \in ends : \A y \in ends : x <= y
                   to == call.base + (e - h)
                   ev == [id |-> 0, from |-> StartOfMatch(input.mode, to), to |-> to,
                          flags |-> 0, ctx |-> call.args.ctx, ret |-> ret]
                   c == [call EXCEPT !.pos = e - h, !.events = Append(@, ev)]
               IN IF ret # 0
                  THEN /\ call' = Returned(c, HS_SCAN_TERMINATED)
                       /\ stream' = StreamAfter(call, HS_SCAN_TERMINATED)
                  ELSE /\ call' = c
                       /\ UNCHANGED stream
    /\ UNCHANGED <<input, next, fed>>

Options(x) == {None, Some(x)}

NextScan ==
    \/ \E cb \in Options(CallbackFn), ctx \in Options(ContextRef),
          fault \in {HS_SUCCESS, HS_INVALID, HS_NOMEM} : ScanBegin(cb, ctx, fault)
    \/ \E ret \in 0..MaxRet : EngineStep(ret)

\* the CPtr operations alone
CPtrSpec == CInit /\ [][NextCPtr]_vars

\* the scan calls alone
ScanSpec == SInit /\ [][NextScan]_vars

\* the two components share no state: the program as a whole
Init == SInit
Next == NextCPtr \/ NextScan
Spec == Init /\ [][Next]_vars

(***************************************************************************)
(* Properties of the scan dispatchers.                                     *)
(***************************************************************************)
\* a scan call has returned to the caller
Finished == call.pc = "idle" /\ call.result # "none"

\* the offsets at which the matches of the current call's data end, counted
\* as the engine counts them
EndsInCall ==
    {call.base + (e - Len(call.hist)) :
        e \in {x \in MatchEnds(call.hist \o call.view) : x > Len(call.hist)}}

\* C1: in each mode, once an invocation of the callback has returned non-zero
\* the callback is not invoked again in that call (the invocation is the
\* last event of the call) and the call returns the ScanTerminated error
C1_TerminatedStops ==
    \A i \in 1..Len(call.events) :
        call.events[i].ret # 0 =>
            /\ i = Len(call.events)
            /\ call.pc = "idle"
            /\ call.result = "ScanTerminated"

\* C1's case: the callback stopped a scan that had another match to report
C1_Witness ==
    /\ Finished
    /\ input.mode = "stream"
    /\ call.events # <<>>
    /\ call.events[Len(call.events)].ret # 0
    /\ Cardinality(EndsInCall) > Len(call.events)

\* C4 as stated: a call without a callback hands the engine a null callback
\* and a null context, and no match event is produced
C4_NoCallbackNoContext ==
    call.result # "none" /\ call.cb = None =>
        /\ call.args.cb = NullPtr
        /\ call.args.ctx = NullPtr
        /\ call.events = <<>>

\* C4, amended: a call without a callback hands the engine a null callback
\* and no match event is produced; the context pointer is the caller's,
\* null exactly when the caller gave no context
C4_NoCallbackNoEvents ==
    call.result # "none" /\ call.cb = None =>
        /\ call.args.cb = NullPtr
        /\ call.args.ctx = NullPtr <=> call.ctx = None
        /\ call.events = <<>>

\* C4's case: a call with a context and no callback succeeded over data
\* that holds a match
C4_Witness ==
    /\ Finished
    /\ call.cb = None
    /\ call.ctx # None
    /\ call.result = "Ok"
    /\ MatchEnds(Concat(call.chunk)) # {}

\* C5: the vectored dispatcher hands over as many pointers and lengths as
\* there are buffers, the i-th being those of the i-th buffer, and every
\* match reported lies where the pattern occurs in the buffers laid end to
\* end
C5_VectoredOffsets ==
    input.mode = "vectored" /\ call.result # "none" =>
        /\ call.args.count = Len(call.chunk)
        /\ Len(call.args.ptrs) = call.args.count
        /\ Len(call.args.lens) = call.args.count
        /\ \A i \in 1..Len(call.chunk) :
              call.args.ptrs[i].buf = i /\ call.args.lens[i] = Len(call.chunk[i])
        /\ \A i \in 1..Len(call.events) :
              /\ call.events[i].to \in MatchEnds(Concat(call.chunk))
              /\ call.events[i].from = call.events[i].to - PatLen

\* C6: the matches a Stream::scan call reports end at offsets counted from
\* the first byte ever scanned on the handle: they are the offsets, in the
\* chunks so far laid end to end, at which the pattern ends in the call's
\* chunk, in order; the start is reported as 0
C6_StreamOffsets ==
    input.mode = "stream" /\ call.result # "none" =>
        LET before == Len(fed) - Len(call.chunk[1])
            due == {e \in MatchEnds(fed) : e > before}
        IN /\ \A i \in 1..Len(call.events) :
                 /\ call.events[i].to \in due
                 /\ call.events[i].from = 0
                 /\ i > 1 => call.events[i - 1].to < call.events[i].to
           /\ call.result = "Ok" /\ call.cb # None =>
                 {call.events[i].to : i \in 1..Len(call.events)} = due

\* C6's case: a later chunk's match is reported past the end of that chunk
C6_Witness ==
    /\ Finished
    /\ input.mode = "stream"
    /\ next > 1
    /\ \E i \in 1..Len(call.events) : call.events[i].to > Len(call.chunk[1])

\* C7: the result of a scan call is decided by the status the entry point
\* returned: success for zero, ScanTerminated for the scan-terminated code,
\* and for any other code the error kind of that code
C7_StatusDecidesResult ==
    Finished =>
        /\ call.status = HS_SUCCESS <=> call.result = "Ok"
        /\ call.status = HS_SCAN_TERMINATED <=> call.result = "ScanTerminated"
        /\ call.status = HS_INVALID <=> call.result = "Invalid"
        /\ call.status = HS_NOMEM <=> call.result = "NoMem"

\* C7's case: the engine reported a failure other than termination
C7_Witness ==
    Finished /\ call.status = HS_NOMEM /\ call.result = "NoMem"

(***************************************************************************)
(* Properties of CPtr.                                                     *)
(***************************************************************************)
\* the CPtrs that own a pointer: constructed, and drop() has not finished
Owners(b) == {h \in Handles : cptrs[h].st \in {"live", "dropping"} /\ cptrs[h].ptr = b}

\* C2: every block has at most one CPtr that owns it, and no block is
\* released through libc::free more than once
C2_ExclusiveOwner ==
    \A b \in Blocks : Cardinality(Owners(b)) <= 1 /\ heap[b].frees <= 1

\* C3: a CPtr built by CPtr::new(v) and dropped without having been borrowed
\* or dereferenced has had its value torn down exactly once and its block
\* released exactly once, and nothing was torn down on the block's
\* uninitialized contents, neither at construction nor later
C3_NewDropOnce ==
    \A h \in Handles :
        cptrs[h].ctor = "new" /\ ~cptrs[h].touched =>
            /\ heap[cptrs[h].blk].gdrops = 0
            /\ cptrs[h].st = "live" =>
                  heap[cptrs[h].blk].drops = 0 /\ heap[cptrs[h].blk].frees = 0
            /\ cptrs[h].st = "dropped" =>
                  heap[cptrs[h].blk].drops = 1 /\ heap[cptrs[h].blk].frees = 1

\* C3's case: a CPtr from CPtr::new was dropped untouched
C3_Witness ==
    \E h \in Handles :
        cptrs[h].ctor = "new" /\ ~cptrs[h].touched /\ cptrs[h].st = "dropped"

\* C8: borrow() returns the value the CPtr was constructed over (the
\* argument of CPtr::new, or what the adopted pointer pointed at) as long as
\* nothing wrote to the block since, and from_ptr allocates nothing
C8_BorrowRoundTrip ==
    /\ lastRead.h # 0 /\ lastRead.expect # NoVal => lastRead.val = lastRead.expect
    /\ \A h \in Handles : cptrs[h].ctor = "from_ptr" => cptrs[h].mallocs = 0

\* C8's case: a borrow() of an unwritten CPtr returned, for a CPtr of each
\* constructor
C8_Witness ==
    /\ lastRead.h # 0 /\ lastRead.expect = MaxVal
    /\ cptrs[lastRead.h].ctor = "from_ptr"
    /\ \E h \in Handles : cptrs[h].ctor = "new"

\* C9: every live CPtr holds a non-null pointer to an allocated block that
\* holds an initialized value, and no operation has read or released
\* memory that is not so
C9_ValidPointer ==
    /\ \A h \in Handles : cptrs[h].st = "live" => Valid(heap, cptrs[h].ptr)
    /\ ~ub

\* C10: drop() reads the value out (tearing it down), then frees the block,
\* then nulls the pointer: no block is released before a teardown has run
\* on it, a block from libc::malloc is released by libc::free, and a dropped
\* CPtr holds the null pointer
C10_DropOrder ==
    /\ \A h \in Handles :
          /\ \A i \in 1..Len(cptrs[h].log) : cptrs[h].log[i] = <<"read", "free", "null">>[i]
          /\ cptrs[h].st = "dropped" => cptrs[h].ptr = Null /\ Len(cptrs[h].log) = 3
          /\ cptrs[h].st = "dropping" => cptrs[h].ptr # Null \/ cptrs[h].ctor = "from_ptr"
    /\ \A b \in Blocks :
          heap[b].frees > 0 =>
              /\ heap[b].drops + heap[b].gdrops > 0
              /\ heap[b].by = "libc::malloc" /\ heap[b].rel = "libc::free"

\* C10's case: a drop() of a CPtr from CPtr::new ran to its end
C10_Witness ==
    \E h \in Handles :
        /\ cptrs[h].st = "dropped" /\ cptrs[h].ctor = "new"
        /\ heap[cptrs[h].blk].st = "freed"

====
